---- MODULE Spec2Model ----
(***************************************************************************)
(* State-machine model of the image drive: content-addressed upload with   *)
(* deduplication (app/api/uploads.py), the persistent FAISS wrapper        *)
(* (app/faiss_store.py), similar-image search (app/api/images.py), the     *)
(* offline rebuild tools (scripts/, tools/) and the auto-tagger's label    *)
(* canonicalisation (app/services/autotag.py).                             *)
(*                                                                         *)
(* Conventions.  A Python value that may be None is a sequence of length   *)
(* at most one: None is << >> and a value x is << x >>.  A Python string   *)
(* that the code inspects character by character (labels, categories) is   *)
(* a sequence of one-character strings.                                    *)
(***************************************************************************)
EXTENDS Integers, Sequences, FiniteSets, TLC

\* ------------------------------------------------------------------ bounds
\* Leading/trailing blanks put around a label handed to canonicalize.
MaxPad == 1
\* Dimension of the embedding vectors.
Dim == 2
\* Largest image id handed to the index directly.
MaxId == 2
\* Entries the index may hold.
MaxEntries == 3
\* Request threads of the serving process that run at the same time.
MaxThreads == 2
\* Entries of one add call.
MaxAddBatch == 2
\* Largest k of a search.
MaxK == 4
\* Distinct file contents (content hashes) a client uploads.
MaxContents == 2
\* Files of one upload request.
MaxBatch == 2
\* Rows the audit log may hold while upload requests are explored.
MaxAudit == 2
\* Labels the classifier scores an image against.
MaxLabels == 3
\* Largest score of a label, in steps of the score scale.
MaxScore == 2
\* Largest top_k handed to predict_labels.
MaxTopK == 3
\* Largest k of a similar-images request.
MaxSimK == 2
\* Rows the audit log may hold while similar-images requests are explored.
MaxSimAudit == 3

\* ------------------------------------------------------------------ state
VARIABLES
    tagLabel,   \* the label handed to canonicalize (None or a string)
    tagPc,      \* "start", "once" (canonicalize applied), "twice" (re-applied)
    tagOut,     \* canonicalize(tagLabel)
    tagAgain    \* canonicalize applied to tagOut

tagVars == << tagLabel, tagPc, tagOut, tagAgain >>

VARIABLES
    running,     \* the process that owns the FaissStore is up
    idmap,       \* FaissStore._idmap: the entries in memory, in insertion order
    indexFile,   \* the artifact at index_path: None, or the words of the file
    acked,       \* entries of the add calls that returned normally
    dirty,       \* the last add's save() raised: memory is ahead of the file
    lastSearch   \* the last search made and what it returned

faissVars == << running, idmap, indexFile, acked, dirty, lastSearch >>

VARIABLES
    uploadDir,   \* config UPLOAD_DIR of the running process
    images,      \* table image: rows [id, sha, path, thumb, cat]
    embeddings,  \* table embedding: rows [id, vec]
    ocrRows,     \* table ocr_text: the image ids that have a row
    auditLog,    \* table audit_log, oldest row first
    files,       \* the image and thumbnail files on disk
    lastUp,      \* per content: the result of its last successful upload
    lastReq,     \* the last upload request and its response
    lastSim,     \* the last similar-images request and its response
    lastRun      \* the run of an offline rebuild tool and its options

dbVars == << uploadDir, images, embeddings, ocrRows, auditLog, files >>
obsVars == << lastUp, lastReq, lastSim, lastRun >>

VARIABLES
    lastPredict, \* the scores handed to the label selection and what it returned
    boot,        \* where the start of the application stands, and self.index
    inflight,    \* per request thread: where its handler stands, its locals
    lastRead     \* the last view, thumb or download request and its response

auxVars == << lastPredict, boot, inflight, lastRead >>

\* ------------------------------------------------------------ Python values
None == << >>
Some(x) == << x >>
IsNone(o) == o = << >>
Val(o) == o[1]

\* min(a, b) and max(a, b)
Min2(a, b) == IF a < b THEN a ELSE b
Max2(a, b) == IF a > b THEN a ELSE b

\* The element of a one-element set.  A chain of assignments x = f(..),
\* y = g(x), result h(x, y) is written The({ h(x, y) : y \in { g(x) } ... }),
\* so that each value is computed once and then named.
The(S) == CHOOSE x \in S : TRUE

\* ------------------------------------------------------------ idle values
Contents == 1..MaxContents

\* The contents of the similar-images runs: one more, which the encoder and
\* the classifier cannot tell from the first.
SimContents == 1..(MaxContents + 1)

NoSearch == [ made |-> FALSE ]

NoReq == [ made |-> FALSE ]
NoSim == [ made |-> FALSE ]
NoRun == [ made |-> FALSE ]
NoPredict == [ made |-> FALSE ]
NoBoot == [ pc |-> "idle" ]
NoRead == [ made |-> FALSE ]
\* The request threads of the serving process, none of them in a handler.
Threads == 1..MaxThreads
NoThreads == [ t \in Threads |-> [ pc |-> "idle" ] ]

TagIdle ==
    /\ tagLabel = None
    /\ tagPc = "idle"
    /\ tagOut = None
    /\ tagAgain = None

FaissIdle ==
    /\ running = FALSE
    /\ idmap = << >>
    /\ indexFile = None
    /\ acked = { }
    /\ dirty = FALSE
    /\ lastSearch = NoSearch

DbEmpty ==
    /\ uploadDir = 1
    /\ images = { }
    /\ embeddings = { }
    /\ ocrRows = { }
    /\ auditLog = << >>
    /\ files = { }
    /\ lastUp = [ c \in SimContents |-> None ]
    /\ lastReq = NoReq
    /\ lastSim = NoSim
    /\ lastRun = NoRun

AuxIdle ==
    /\ lastPredict = NoPredict
    /\ boot = NoBoot
    /\ inflight = NoThreads
    /\ lastRead = NoRead

\* ================================================================ autotag
\* Labels are sequences of characters.
Range(s) == { s[i] : i \in DOMAIN s }

L_cat == << "c", "a", "t" >>
L_dog == << "d", "o", "g" >>
L_elephant == << "e", "l", "e", "p", "h", "a", "n", "t" >>
L_flower == << "f", "l", "o", "w", "e", "r" >>
L_forest == << "f", "o", "r", "e", "s", "t" >>
L_fruit == << "f", "r", "u", "i", "t" >>
L_human == << "h", "u", "m", "a", "n" >>
L_landscape == << "l", "a", "n", "d", "s", "c", "a", "p", "e" >>
L_receipt == << "r", "e", "c", "e", "i", "p", "t" >>
L_sea == << "s", "e", "a" >>
L_street == << "s", "t", "r", "e", "e", "t" >>
L_others == << "o", "t", "h", "e", "r", "s" >>
L_screenshot == << "s", "c", "r", "e", "e", "n", "s", "h", "o", "t" >>
L_people == << "p", "e", "o", "p", "l", "e" >>
L_person == << "p", "e", "r", "s", "o", "n" >>
L_documents == << "d", "o", "c", "u", "m", "e", "n", "t", "s" >>
L_doc == << "d", "o", "c" >>

\* The plural the alias table spells: the singular followed by "s".
Plural(w) == Append(w, "s")

CATEGORY_CANON ==
    << L_cat, L_dog, L_elephant, L_flower, L_forest, L_fruit, L_human,
       L_landscape, L_receipt, L_sea, L_street, L_others >>

CanonSet == Range(CATEGORY_CANON)

\* ALIASES as a set of <<key, value>> pairs, in the order of the source.
ALIASES ==
    { << w, w >> : w \in CanonSet }
    \cup { << Plural(w), w >> : w \in CanonSet \ { L_others } }
    \cup { << L_screenshot, L_others >>, << Plural(L_screenshot), L_others >> }
    \cup { << L_people, L_human >>, << L_person, L_human >>,
           << L_documents, L_receipt >>, << L_doc, L_receipt >> }

AliasKeys == { a[1] : a \in ALIASES }

\* dict.get(key): the value, or None.
AliasGet(s) ==
    IF s \in AliasKeys THEN Some((CHOOSE a \in ALIASES : a[1] = s)[2]) ELSE None

\* str.strip(): the blanks Python strips by default.
IsSpace(c) == c \in { " ", "\t", "\n" }

RECURSIVE LStrip(_)
LStrip(s) == IF s # << >> /\ IsSpace(Head(s)) THEN LStrip(Tail(s)) ELSE s

RECURSIVE RStrip(_)
RStrip(s) ==
    IF s # << >> /\ IsSpace(s[Len(s)]) THEN RStrip(SubSeq(s, 1, Len(s) - 1)) ELSE s

Strip(s) == RStrip(LStrip(s))

\* str.lower() on the letters the model's labels use.
UpperLetters ==
    { << "A", "a" >>, << "C", "c" >>, << "D", "d" >>, << "E", "e" >>,
      << "F", "f" >>, << "H", "h" >>, << "L", "l" >>, << "O", "o" >>,
      << "P", "p" >>, << "R", "r" >>, << "S", "s" >>, << "T", "t" >>,
      << "B", "b" >> }

LowerChar(c) ==
    IF \E u \in UpperLetters : u[1] = c
    THEN (CHOOSE u \in UpperLetters : u[1] = c)[2]
    ELSE c

UpperChar(c) ==
    IF \E u \in UpperLetters : u[2] = c
    THEN (CHOOSE u \in UpperLetters : u[2] = c)[1]
    ELSE c

Lower(s) == [ i \in DOMAIN s |-> LowerChar(s[i]) ]

\* str.replace("_", " ")
ReplaceUnderscore(s) == [ i \in DOMAIN s |-> IF s[i] = "_" THEN " " ELSE s[i] ]

\* (label or "").strip().lower().replace("_", " ")
NormLabel(label) ==
    ReplaceUnderscore(Lower(Strip(IF IsNone(label) THEN << >> ELSE Val(label))))

\* A canonicalize that forgets the alias table and passes the folded text on.
canonicalize_passthrough(label) ==
    LET s == NormLabel(label) IN IF s = << >> THEN None ELSE Some(s)

\* canonicalize(label): the canonical label, or None.
canonicalize(label) ==
    LET s == NormLabel(label)
    IN  IF s = << >> THEN None
        ELSE IF s \in CanonSet THEN Some(s)
        ELSE AliasGet(s)

\* ---------------------------------------------------------- predict_labels
\* The label list scored: the first MaxLabels labels of the vocabulary.
LabelList == SubSeq(CATEGORY_CANON, 1, MaxLabels)

\* sorted(scores.items(), key=score, reverse=True): the positions of the
\* label list by descending score; the sort is stable, equal scores keep
\* the order of the list.
RECURSIVE Ordered(_, _)
Ordered(scores, todo) ==
    IF todo = { } THEN << >>
    ELSE LET b == CHOOSE i \in todo :
                    \A j \in todo : \/ scores[i] > scores[j]
                                    \/ scores[i] = scores[j] /\ i <= j
         IN  << b >> \o Ordered(scores, todo \ { b })

\* A threshold test that a score equal to the threshold fails.
AtOrAbove_strict(sc, threshold) == sc > threshold

\* sc >= threshold
AtOrAbove(sc, threshold) == sc >= threshold

\* predict_labels(image_path, labels, top_k, threshold) on the scores of
\* score_image: the primary label and the label list.
PredictLabels(scores, threshold, top_k) ==
    LET ordered == Ordered(scores, DOMAIN scores)
        primary_canon == ordered[1]
        Clears(i) == AtOrAbove(scores[i], threshold)
        above == SelectSeq(ordered, Clears)
        keep == IF above = << >> THEN << ordered[1] >> ELSE above
        cut == SubSeq(keep, 1, Min2(Max2(1, top_k), Len(keep)))
        label_list_canon == IF primary_canon \in Range(cut) THEN cut
                            ELSE << primary_canon >> \o cut
    IN  [ primary |-> LabelList[primary_canon],
          labels |-> [ i \in DOMAIN label_list_canon |->
                         LabelList[label_list_canon[i]] ] ]

\* The scores of one image against the label list, a threshold and a top_k.
InitPredict ==
    /\ lastPredict \in [ made : { FALSE },
                         scores : [ 1..MaxLabels -> 0..MaxScore ],
                         threshold : 1..MaxScore,
                         top_k : 0..MaxTopK,
                         out : { [ primary |-> << >>, labels |-> << >> ] } ]
    /\ boot = NoBoot
    /\ inflight = NoThreads
    /\ lastRead = NoRead
    /\ TagIdle
    /\ FaissIdle
    /\ DbEmpty

Predict ==
    /\ ~lastPredict.made
    /\ lastPredict' =
         [ lastPredict EXCEPT
             !.made = TRUE,
             !.out = PredictLabels(lastPredict.scores, lastPredict.threshold,
                                   lastPredict.top_k) ]
    /\ UNCHANGED << boot, inflight, lastRead, tagVars, faissVars, dbVars, obsVars >>

NextPredict == Predict

\* ------------------------------------------------------- canonicalize runs

\* Words a caller may hand in: the vocabulary, the alias keys and words the
\* tables do not know.
UnknownWords ==
    { << "b", "i", "r", "d" >>, << "c", "a", "t", "z" >>,
      << "c", "a", "t", "_", "s" >>, << "s", "e", "a", " ", "s" >>,
      << "_" >>, << >> }

Words == CanonSet \cup AliasKeys \cup UnknownWords

Blanks(n) == [ i \in 1..n |-> " " ]

\* A word as a caller may spell it: padded with blanks, capitalised.
Spelling(w, pre, post, cap) ==
    Blanks(pre)
    \o (IF cap /\ w # << >> THEN << UpperChar(Head(w)) >> \o Tail(w) ELSE w)
    \o Blanks(post)

Labels ==
    { Some(Spelling(w, pre, post, cap)) :
        w \in Words, pre \in 0..MaxPad, post \in 0..MaxPad, cap \in BOOLEAN }
    \cup { None }

InitCanon ==
    /\ tagLabel \in Labels
    /\ tagPc = "start"
    /\ tagOut = None
    /\ tagAgain = None
    /\ FaissIdle
    /\ DbEmpty
    /\ AuxIdle

Canonicalize ==
    /\ tagPc = "start"
    /\ tagOut' = canonicalize(tagLabel)
    /\ tagPc' = "once"
    /\ UNCHANGED << tagLabel, tagAgain, faissVars, dbVars, obsVars, auxVars >>

\* Re-tagging: the stored canonical label is canonicalized again.
Recanonicalize ==
    /\ tagPc = "once"
    /\ ~IsNone(tagOut)
    /\ tagAgain' = canonicalize(tagOut)
    /\ tagPc' = "twice"
    /\ UNCHANGED << tagLabel, tagOut, faissVars, dbVars, obsVars, auxVars >>

NextCanon == Canonicalize \/ Recanonicalize

\* ============================================================ faiss_store
\* Unit vectors of dimension Dim: one coordinate is 1 or -1, the rest 0.
UnitVecs ==
    { [ i \in 1..Dim |-> IF i = ax THEN sg ELSE 0 ] : ax \in 1..Dim, sg \in { 1, -1 } }

RECURSIVE Dot(_, _)
Dot(u, v) ==
    IF u = << >> \/ v = << >> THEN 0
    ELSE Head(u) * Head(v) + Dot(Tail(u), Tail(v))

\* An index entry: the application's id and its vector.
Entry(i, v) == [ id |-> i, vec |-> v ]

RECURSIVE Flatten(_)
Flatten(vs) == IF vs = << >> THEN << >> ELSE Head(vs) \o Flatten(Tail(vs))

\* faiss.write_index: the bytes of the file, as a sequence of words: the
\* dimension, the entry count, the vectors one after the other, the ids.
WriteIndex(idx) ==
    << Dim, Len(idx) >>
    \o Flatten([ i \in DOMAIN idx |-> idx[i].vec ])
    \o [ i \in DOMAIN idx |-> idx[i].id ]

\* faiss.read_index: the index the words spell, or None where the file is
\* cut short (read_index raises).
ReadIndex(words) ==
    IF Len(words) < 2 THEN None
    ELSE LET d == words[1]
             n == words[2]
         IN  IF Len(words) # 2 + n * d + n THEN None
             ELSE Some([ i \in 1..n |->
                         Entry(words[2 + n * d + i],
                               [ j \in 1..d |-> words[2 + (i - 1) * d + j] ]) ])

\* FaissStore._load_if_exists on a file that may be absent (None): the index
\* the store holds after construction, or None where the constructor raises.
LoadIfExists(file) ==
    IF IsNone(file) THEN Some(<< >>) ELSE ReadIndex(Val(file))

\* The position in idx of the best entry for query q among those in todo:
\* greatest inner product, the earliest entry among equals.
Best(idx, q, todo) ==
    CHOOSE i \in todo :
        \A j \in todo :
            \/ Dot(idx[i].vec, q) > Dot(idx[j].vec, q)
            \/ Dot(idx[i].vec, q) = Dot(idx[j].vec, q) /\ i <= j

\* faiss IndexIDMap2.search(q, k): k slots, best first; a slot with no
\* entry holds the label -1 and the lowest score.
RECURSIVE TopK(_, _, _, _)
TopK(idx, q, k, todo) ==
    IF k = 0 THEN << >>
    ELSE IF todo = { } THEN << << -1, -(Dim + 1) >> >> \o TopK(idx, q, k - 1, todo)
    ELSE LET b == Best(idx, q, todo)
         IN  << << idx[b].id, Dot(idx[b].vec, q) >> >>
             \o TopK(idx, q, k - 1, todo \ { b })

IndexSearch(idx, q, k) == TopK(idx, q, k, DOMAIN idx)

\* The pairs of hits whose id is in keep, in their order.
SelectSeq2(s, keep) ==
    LET Kept(h) == h[1] \in keep
    IN  SelectSeq(s, Kept)

\* The pairs of hits whose id is not the sentinel -1.
DropSentinel(hs) ==
    LET Real(h) == h[1] # -1
    IN  SelectSeq(hs, Real)

\* A search that hands the library's slots on unfiltered.
FaissSearch_unfiltered(idx, q, k) ==
    IF Len(idx) = 0 THEN << >> ELSE IndexSearch(idx, q, k)

\* FaissStore.search(qvec, k): [(id, score)].
FaissSearch(idx, q, k) ==
    IF Len(idx) = 0 THEN << >> ELSE DropSentinel(IndexSearch(idx, q, k))

\* An add that leaves the artifact as it was.
FaissAdd_nosave(idx, file, new) ==
    [ idx |-> idx \o new, file |-> file ]

\* FaissStore.add(ids, vecs) followed by save(): the index in memory and
\* the artifact after the call returned.
FaissAdd(idx, file, new) ==
    [ idx |-> idx \o new, file |-> Some(WriteIndex(idx \o new)) ]


\* The entries a freshly opened store gets from the artifact.
Recoverable(file) ==
    LET got == LoadIfExists(file)
    IN  IF IsNone(got) THEN { } ELSE Range(Val(got))

\* The vectors the model stores: the positive unit vectors.
StoredVecs == { v \in UnitVecs : \A i \in 1..Dim : v[i] >= 0 }

AddInputs ==
    UNION { [ 1..n -> 1..MaxId ] \X [ 1..m -> StoredVecs ] :
              n \in 1..MaxAddBatch, m \in 1..MaxAddBatch }

Zip(ids, vecs) == [ i \in DOMAIN ids |-> Entry(ids[i], vecs[i]) ]

\* A store constructed on an empty directory.
InitIndex ==
    /\ running = TRUE
    /\ idmap = << >>
    /\ indexFile = None
    /\ acked = { }
    /\ dirty = FALSE
    /\ lastSearch = NoSearch
    /\ TagIdle
    /\ DbEmpty
    /\ AuxIdle

\* add(ids, vecs) returns normally.  Lengths that differ raise ValueError
\* before anything is changed.
Add ==
    \E inp \in AddInputs :
        /\ running
        /\ Len(idmap) + Len(inp[1]) <= MaxEntries
        /\ IF Len(inp[1]) # Len(inp[2])
           THEN UNCHANGED << idmap, indexFile, acked, dirty >>
           ELSE LET r == FaissAdd(idmap, indexFile, Zip(inp[1], inp[2]))
                IN  /\ idmap' = r.idx
                    /\ indexFile' = r.file
                    /\ acked' = acked \cup Range(Zip(inp[1], inp[2]))
                    /\ dirty' = FALSE
        /\ lastSearch' = NoSearch
        /\ UNCHANGED << running, tagVars, dbVars, obsVars, auxVars >>

\* add(ids, vecs) whose save() raises because the file cannot be opened for
\* writing: the entries are in memory, the artifact is as before.
AddSaveFails ==
    \E inp \in AddInputs :
        /\ running
        /\ Len(inp[1]) = Len(inp[2])
        /\ Len(idmap) + Len(inp[1]) <= MaxEntries
        /\ idmap' = idmap \o Zip(inp[1], inp[2])
        /\ dirty' = TRUE
        /\ lastSearch' = NoSearch
        /\ UNCHANGED << running, indexFile, acked, tagVars, dbVars, obsVars, auxVars >>

\* The process dies inside add's save(): write_index has opened the file for
\* writing, which empties it, and has written some of its words.
AddCrash ==
    \E inp \in AddInputs :
        /\ running
        /\ Len(inp[1]) = Len(inp[2])
        /\ Len(idmap) + Len(inp[1]) <= MaxEntries
        /\ LET full == WriteIndex(idmap \o Zip(inp[1], inp[2]))
           IN  \E n \in 0..(Len(full) - 1) :
                   indexFile' = Some(SubSeq(full, 1, n))
        /\ running' = FALSE
        /\ idmap' = << >>
        /\ dirty' = FALSE
        /\ lastSearch' = NoSearch
        /\ UNCHANGED << acked, tagVars, dbVars, obsVars, auxVars >>

\* The process dies between two calls.
Crash ==
    /\ running
    /\ running' = FALSE
    /\ idmap' = << >>
    /\ dirty' = FALSE
    /\ lastSearch' = NoSearch
    /\ UNCHANGED << indexFile, acked, tagVars, dbVars, obsVars, auxVars >>

\* The process starts again: FaissStore(dim, index_path).  A file that does
\* not parse makes the constructor raise and the process does not come up.
Open ==
    /\ ~running
    /\ ~IsNone(LoadIfExists(indexFile))
    /\ idmap' = Val(LoadIfExists(indexFile))
    /\ running' = TRUE
    /\ lastSearch' = NoSearch
    /\ UNCHANGED << indexFile, acked, dirty, tagVars, dbVars, obsVars, auxVars >>

\* search(q, k) on the running store, and the same search on a second store
\* opened from the artifact as it is now (None where it does not open).
Search ==
    \E q \in UnitVecs, k \in 1..MaxK :
        /\ running
        /\ lastSearch' =
             [ made |-> TRUE, q |-> q, k |-> k, ntotal |-> Len(idmap),
               hits |-> FaissSearch(idmap, q, k),
               reopened |->
                 IF IsNone(LoadIfExists(indexFile)) THEN None
                 ELSE Some(FaissSearch(Val(LoadIfExists(indexFile)), q, k)) ]
        /\ UNCHANGED << running, idmap, indexFile, acked, dirty, tagVars, dbVars, obsVars, auxVars >>

NextIndex == Add \/ AddSaveFails \/ AddCrash \/ Crash \/ Open \/ Search

\* ================================================================ uploads
\* UPLOAD_DIR as configured at start: the default, or a directory the
\* operator moved the store to.
UploadDirs == { 1, 2 }

\* <UPLOAD_DIR>/<sha[:2]>/<sha[2:4]>/<sha>
StorePath(root, sha) == << "image", root, sha >>

\* <THUMB_DIR>/<sha[:2]>/<sha[2:4]>/<sha>.jpg
ThumbPath(sha) == << "thumb", 0, sha >>

\* The content of the file at a content-addressed path.
ContentOf(path) == path[3]

\* EMB.encode_image: the unit vector of an image, a function of its bytes.
Embed(sha) == [ i \in 1..Dim |-> IF i = ((sha - 1) % Dim) + 1 THEN 1 ELSE 0 ]

\* predict_labels(...).primary: the arg-max label over the image embedding.
PrimaryOf(sha) ==
    CATEGORY_CANON[CHOOSE i \in 1..Dim : Embed(sha)[i] = 1]

\* ImageModel.query.filter_by(sha256=sha).first()
FindBySha(imgs, sha) ==
    IF \E r \in imgs : r.sha = sha
    THEN Some(CHOOSE r \in imgs : r.sha = sha)
    ELSE None

\* db.session.get(Model, id)
GetById(rows, id) ==
    IF \E r \in rows : r.id = id
    THEN Some(CHOOSE r \in rows : r.id = id)
    ELSE None

SetMax(S) == CHOOSE x \in S : \A y \in S : y <= x

\* The id SQLite gives a new row of table image: one more than the largest.
NextImageId(imgs) == IF imgs = { } THEN 1 ELSE SetMax({ r.id : r \in imgs }) + 1

\* What can fail while one file is handled: nothing, or one of the steps.
Faults ==
    { "none", "noname", "mkstemp", "save", "move", "thumb", "insert",
      "healCommit", "emb", "embCommit", "persist", "ocr", "tag", "audit" }

ErrorResult == [ kind |-> "error", id |-> 0, dup |-> FALSE, tag |-> None ]
OkResult(id, dup, tag) == [ kind |-> "ok", id |-> id, dup |-> dup, tag |-> tag ]

\* An embedding stage that takes a stored row as proof that the index has
\* the entry.
StageVec_newonly(has, canEncode, sha) ==
    IF ~IsNone(has) THEN None
    ELSE IF canEncode THEN Some(Embed(sha))
    ELSE None

\* vec as the embedding stage has it before the index is touched: the blob
\* of the stored row, else what EMB.encode_image returned, else None.
StageVec(has, canEncode, sha) ==
    IF ~IsNone(has) THEN Some(Val(has).vec)
    ELSE IF canEncode THEN Some(Embed(sha))
    ELSE None

\* As EmbStage, but a stored row is replaced by a fresh encoding of another
\* model (the opposite vector).
EmbStage_reencode(st, id, path, fault) ==
    LET has == GetById(st.embeddings, id)
        canEncode == path \in st.files /\ fault # "emb"
        vec == IF canEncode
               THEN Some([ i \in 1..Dim |-> IF IsNone(has) THEN Embed(ContentOf(path))[i]
                                            ELSE 0 - Embed(ContentOf(path))[i] ])
               ELSE IF ~IsNone(has) THEN Some(Val(has).vec) ELSE None
        st1 == IF canEncode /\ fault # "embCommit"
               THEN [ st EXCEPT !.embeddings = { e \in @ : e.id # id }
                                                 \cup { [ id |-> id, vec |-> Val(vec) ] },
                                !.calls = Append(@, "emb") ]
               ELSE [ st EXCEPT !.calls = Append(@, "emb") ]
    IN  IF IsNone(vec) THEN st1
        ELSE IF fault = "persist"
        THEN [ st1 EXCEPT !.idmap = @ \o << Entry(id, Val(vec)) >> ]
        ELSE LET r == FaissAdd(st1.idmap, st1.indexFile, << Entry(id, Val(vec)) >>)
             IN  [ st1 EXCEPT !.idmap = r.idx, !.indexFile = r.file ]

\* _upsert_embedding_and_index(image_id, img_path).  st.calls lists the
\* stages that called the embedding provider.
EmbStage(st, id, path, fault) ==
    LET has == GetById(st.embeddings, id)
        canEncode == path \in st.files /\ fault # "emb"
        vec == StageVec(has, canEncode, ContentOf(path))
        st0 == IF IsNone(has) THEN [ st EXCEPT !.calls = Append(@, "emb") ] ELSE st
        st1 == IF IsNone(has) /\ canEncode /\ fault # "embCommit"
               THEN [ st0 EXCEPT !.embeddings = @ \cup { [ id |-> id, vec |-> Val(vec) ] } ]
               ELSE st0
    IN  IF IsNone(vec) THEN st1
        ELSE IF fault = "persist"
        THEN [ st1 EXCEPT !.idmap = @ \o << Entry(id, Val(vec)) >> ]
        ELSE LET r == FaissAdd(st1.idmap, st1.indexFile, << Entry(id, Val(vec)) >>)
             IN  [ st1 EXCEPT !.idmap = r.idx, !.indexFile = r.file ]

\* _upsert_ocr(image_id, img_path)
OcrStage(st, id, fault) ==
    IF id \in st.ocrRows \/ fault = "ocr" THEN st
    ELSE [ st EXCEPT !.ocrRows = @ \cup { id } ]

\* An auto-tag stage that never keeps what is stored.
KeepsCategory_never(cat, force) == FALSE

\* if not force and image_obj.category: the category is kept
KeepsCategory(cat, force) == ~force /\ ~IsNone(cat) /\ Val(cat) # << >>

\* _auto_tag(image_obj, force): the state and the label written (or None).
\* predict_labels embeds the file before the stored category is looked at.
TagStage(st, id, force, fault) ==
    LET rec == Val(GetById(st.images, id))
    IN  IF fault = "tag"
        THEN [ st |-> st, tag |-> None ]
        ELSE The({ IF rec.path \notin st.files \/ KeepsCategory(rec.cat, force)
                   THEN [ st |-> s1, tag |-> None ]
                   ELSE [ st |-> [ s1 EXCEPT !.images =
                                     (@ \ { rec }) \cup
                                     { [ rec EXCEPT !.cat =
                                           Some(PrimaryOf(ContentOf(rec.path))) ] } ],
                          tag |-> Some(PrimaryOf(ContentOf(rec.path))) ] :
                   s1 \in { [ st EXCEPT !.calls = Append(@, "tag") ] } })

\* An audit that files every upload as not a duplicate.
AuditStage_nodup(st, id, dup, fault) ==
    IF fault = "audit" THEN st
    ELSE [ st EXCEPT !.auditLog =
             Append(@, [ action |-> "upload", target |-> id, dup |-> FALSE ]),
                     !.order = Append(@, "audit") ]

\* _audit(user_id, image_id, duplicate).  st.order lists what the handler
\* has done for the file so far: a stage that returned, an audit row written.
AuditStage(st, id, dup, fault) ==
    IF fault = "audit" THEN st
    ELSE [ st EXCEPT !.auditLog =
             Append(@, [ action |-> "upload", target |-> id, dup |-> dup ]),
                     !.order = Append(@, "audit") ]

\* _gen_thumb(src_path, sha): the thumbnail path, or None on failure.
GenThumb(sha, fault) == IF fault = "thumb" THEN None ELSE Some(ThumbPath(sha))

WithThumb(fs, tp) == IF IsNone(tp) THEN fs ELSE fs \cup { Val(tp) }

\* The embedding, OCR and auto-tag stages in the order the handler runs them.
Enrich(st, id, force, fault) ==
    The({ [ t EXCEPT !.st.order = @ \o << "emb", "ocr", "tag" >> ] :
            t \in { TagStage(s2, id, force, fault) :
                      s2 \in { OcrStage(s1, id, fault) :
                                 s1 \in { EmbStage(st, id,
                                                   Val(GetById(st.images, id)).path,
                                                   fault) } } } })

\* A duplicate branch that reports the file as newly stored.
DuplicateBranch_fresh(st, existed, force, fault) ==
    The({ [ st |-> AuditStage(t.st, existed.id, TRUE, fault),
            res |-> OkResult(existed.id, FALSE, t.tag) ] :
          t \in { Enrich(st, existed.id, force, fault) } })

\* The branch for a hash whose record and file both exist.
DuplicateBranch(st, existed, force, fault) ==
    The({ [ st |-> AuditStage(t.st, existed.id, TRUE, fault),
            res |-> OkResult(existed.id, TRUE, t.tag) ] :
          t \in { Enrich(st, existed.id, force, fault) } })

\* A healing that files the bytes under a new record.
HealedRecord_newrow(existed, dst, tp, newId) ==
    [ existed EXCEPT !.id = newId, !.path = dst,
                     !.thumb = IF IsNone(@) THEN tp ELSE @ ]

\* existed.path = target_path; existed.thumb_path = existed.thumb_path or tpath
HealedRecord(existed, dst, tp, newId) ==
    [ existed EXCEPT !.path = dst, !.thumb = IF IsNone(@) THEN tp ELSE @ ]

\* The branch for a hash whose record exists and whose file is missing.
HealBranch(st, root, existed, force, fault) ==
    IF fault = "move" THEN [ st |-> st, res |-> ErrorResult ]
    ELSE LET dst == StorePath(root, existed.sha)
             tp == GenThumb(existed.sha, fault)
             rec == IF fault = "healCommit" THEN existed
                    ELSE HealedRecord(existed, dst, tp, NextImageId(st.images))
         IN  The({ [ st |-> AuditStage(t.st, rec.id, FALSE, fault),
                     res |-> OkResult(rec.id, FALSE, t.tag) ] :
                   t \in { Enrich(s1, rec.id, force, fault) :
                             s1 \in { [ st EXCEPT
                                          !.files = WithThumb(@ \cup { dst }, tp),
                                          !.images = (@ \ { existed }) \cup { rec } ] } } })

\* The branch for a hash with no record.
NewBranch(st, root, sha, force, fault) ==
    IF fault = "move" THEN [ st |-> st, res |-> ErrorResult ]
    ELSE LET dst == StorePath(root, sha)
             tp == GenThumb(sha, fault)
             rec == [ id |-> NextImageId(st.images), sha |-> sha, path |-> dst,
                      thumb |-> tp, cat |-> None ]
         IN  IF fault = "insert" \/ (\E r \in st.images : r.sha = sha)
             THEN \* the insert fails: the file and the thumbnail are removed
                  [ st |-> [ st EXCEPT !.files = (@ \ { dst }) \ Range(tp) ],
                    res |-> ErrorResult ]
             ELSE The({ [ st |-> t.st, res |-> OkResult(rec.id, FALSE, t.tag) ] :
                        t \in { Enrich(s2, rec.id, force, fault) :
                                  s2 \in { AuditStage(s1, rec.id, FALSE, fault) :
                                             s1 \in { [ st EXCEPT
                                                          !.files = WithThumb(@ \cup { dst }, tp),
                                                          !.images = @ \cup { rec } ] } } } })

\* One pass of the handler's loop: the state after the file and its result.
HandleFile(st, root, f, force) ==
    LET existed == FindBySha(st.images, f.sha)
    IN  IF f.fault \in { "noname", "save" } THEN [ st |-> st, res |-> ErrorResult ]
        ELSE IF ~IsNone(existed) /\ Val(existed).path \in st.files
        THEN DuplicateBranch(st, Val(existed), force, f.fault)
        ELSE IF ~IsNone(existed)
        THEN HealBranch(st, root, Val(existed), force, f.fault)
        ELSE NewBranch(st, root, f.sha, force, f.fault)

\* What the model notes about one file of a request.
Event(st, root, f, out) ==
    LET existed == FindBySha(st.images, f.sha)
    IN  [ sha |-> f.sha, fault |-> f.fault,
          existed |-> IF IsNone(existed) THEN 0 ELSE Val(existed).id,
          present |-> ~IsNone(existed) /\ Val(existed).path \in st.files,
          prev |-> st.lastUp[f.sha],
          recBefore |-> existed,
          hadVec |-> out.res.kind = "ok" /\ ~IsNone(GetById(st.embeddings, out.res.id)),
          calls |-> SubSeq(out.st.calls, Len(st.calls) + 1, Len(out.st.calls)),
          order |-> SubSeq(out.st.order, Len(st.order) + 1, Len(out.st.order)),
          res |-> out.res,
          recAfter |-> FindBySha(out.st.images, f.sha),
          stored |-> StorePath(root, f.sha) \in out.st.files,
          auditNew |-> SubSeq(out.st.auditLog, Len(st.auditLog) + 1,
                              Len(out.st.auditLog)),
          rowsBefore |-> Cardinality(st.images),
          rowsAfter |-> Cardinality(out.st.images) ]

\* The state after one file with the file's result noted for its content.
NoteUpload(st, f, out) ==
    IF out.res.kind = "ok"
    THEN [ out.st EXCEPT !.lastUp[f.sha] =
             Some([ id |-> out.res.id, dup |-> out.res.dup,
                    first |-> IsNone(FindBySha(st.images, f.sha)) ]) ]
    ELSE out.st

\* The loop over request.files: the state, the list saved and the notes.
\* tempfile.mkstemp is called outside the try block: when it raises, the
\* exception leaves the handler and the files before it stay handled.
RECURSIVE RunBatch(_, _, _, _)
RunBatch(st, root, batch, force) ==
    IF batch = << >>
    THEN [ st |-> st, saved |-> << >>, events |-> << >>, aborted |-> FALSE ]
    ELSE IF Head(batch).fault = "mkstemp"
    THEN [ st |-> st, saved |-> << >>, events |-> << >>, aborted |-> TRUE ]
    ELSE The({ [ st |-> p.rest.st,
                 saved |-> << p.out.res >> \o p.rest.saved,
                 events |-> << Event(st, root, Head(batch), p.out) >> \o p.rest.events,
                 aborted |-> p.rest.aborted ] :
               p \in { [ out |-> out,
                         rest |-> RunBatch(NoteUpload(st, Head(batch), out), root,
                                           Tail(batch), force) ] :
                       out \in { HandleFile(st, root, Head(batch), force) } } })

\* The files of a request: any contents, at most one of them hit by a fault.
Batches ==
    UNION { { b \in [ 1..n -> [ sha : Contents, fault : Faults ] ] :
                Cardinality({ i \in 1..n : b[i].fault # "none" }) <= 1 } :
            n \in 0..MaxBatch }

Snapshot ==
    [ images |-> images, embeddings |-> embeddings, ocrRows |-> ocrRows,
      auditLog |-> auditLog, files |-> files, idmap |-> idmap,
      indexFile |-> indexFile, lastUp |-> lastUp, calls |-> << >>,
      order |-> << >> ]

\* The application started on an empty database and an empty data directory.
Init ==
    /\ DbEmpty
    /\ AuxIdle
    /\ running = TRUE
    /\ idmap = << >>
    /\ indexFile = None
    /\ acked = { }
    /\ dirty = FALSE
    /\ lastSearch = NoSearch
    /\ TagIdle

\* No response is waiting to be sent.
Idle == ~lastReq.made /\ ~lastSim.made

\* POST /api/upload with the given files and force_tag.
UploadWith(batch, force) ==
        /\ running
        /\ Idle
        /\ \E out \in { RunBatch(Snapshot, uploadDir, batch, force) } :
               /\ images' = out.st.images
               /\ embeddings' = out.st.embeddings
               /\ ocrRows' = out.st.ocrRows
               /\ auditLog' = out.st.auditLog
               /\ files' = out.st.files
               /\ idmap' = out.st.idmap
               /\ indexFile' = out.st.indexFile
               /\ lastUp' = out.st.lastUp
               /\ lastReq' = [ made |-> TRUE, batch |-> batch, force |-> force,
                               status |-> IF batch = << >> THEN 400
                                          ELSE IF out.aborted THEN 500 ELSE 200,
                               saved |-> IF out.aborted THEN << >> ELSE out.saved,
                               events |-> out.events ]
        /\ lastSim' = NoSim
        /\ UNCHANGED << uploadDir, running, acked, dirty, lastSearch, tagVars, lastRun, auxVars >>

\* POST /api/upload: any files, with or without force_tag.
Upload ==
    \E batch \in Batches, force \in BOOLEAN :
        /\ Len(idmap) + Len(batch) <= MaxEntries
        /\ Len(auditLog) + Len(batch) <= MaxAudit
        /\ UploadWith(batch, force)

\* POST /api/upload of one file, tagged by the classifier or left untagged.
UploadOne ==
    \E sha \in SimContents, fault \in { "none", "tag" } :
        /\ Len(idmap) < MaxEntries
        /\ Len(auditLog) < MaxSimAudit
        /\ UploadWith(<< [ sha |-> sha, fault |-> fault ] >>, FALSE)

\* The file of a record goes missing on disk (drift the heal branch detects).
FileLost ==
    \E r \in images :
        /\ Idle
        /\ r.path \in files
        /\ files' = files \ { r.path }
        /\ lastUp' = [ lastUp EXCEPT ![r.sha] = None ]
        /\ lastReq' = NoReq
        /\ lastSim' = NoSim
        /\ UNCHANGED << uploadDir, images, embeddings, ocrRows, auditLog,
                        faissVars, tagVars, lastRun, auxVars >>

\* The process is started again, maybe with another UPLOAD_DIR: create_app
\* constructs the FaissStore from the artifact.
Restart ==
    \E root \in UploadDirs :
        /\ running
        /\ Idle
        /\ ~IsNone(LoadIfExists(indexFile))
        /\ uploadDir' = root
        /\ idmap' = Val(LoadIfExists(indexFile))
        /\ lastReq' = NoReq
        /\ lastSim' = NoSim
        /\ UNCHANGED << images, embeddings, ocrRows, auditLog, files, lastUp,
                        running, indexFile, acked, dirty, lastSearch, tagVars, lastRun, auxVars >>

\* DELETE /api/images/<id>: the files, the row and the rows that hang on it.
DeleteImage ==
    \E r \in images :
        /\ running
        /\ Idle
        /\ Len(auditLog) < MaxSimAudit
        /\ files' = (files \ { r.path }) \ Range(r.thumb)
        /\ auditLog' = Append(auditLog,
                              [ action |-> "delete", target |-> r.id, dup |-> FALSE ])
        /\ images' = images \ { r }
        /\ embeddings' = { e \in embeddings : e.id # r.id }
        /\ ocrRows' = ocrRows \ { r.id }
        /\ lastUp' = [ lastUp EXCEPT ![r.sha] = None ]
        /\ lastReq' = NoReq
        /\ lastSim' = NoSim
        /\ UNCHANGED << uploadDir, faissVars, tagVars, lastRun, auxVars >>

\* ================================================================= images
\* _to01(score), in halves: (score + 1) / 2 clamped to [0, 1] is To01x2 / 2.
To01x2(score) == Max2(0, Min2(2, score + 1))

\* category or ""
CatText(cat) == IF IsNone(cat) THEN << >> ELSE Val(cat)

HitIds(hs) == { hs[i][1] : i \in DOMAIN hs }

\* A category filter that lets every candidate through.
SameCategory_all(imgs, cands, seed_cat) == cands

\* The candidates whose category text equals the seed's; an id with no row
\* counts as "".
SameCategory(imgs, cands, seed_cat) ==
    LET by_id(iid) == IF \E r \in imgs : r.id = iid
                      THEN CatText((CHOOSE r \in imgs : r.id = iid).cat)
                      ELSE << >>
        Same(h) == by_id(h[1]) = seed_cat
    IN  SelectSeq(cands, Same)

\* A filter that leaves the seed among the candidates.
DropSelf_none(hs, image_id) == hs

\* [(iid, s) for (iid, s) in cand_pairs if iid != image_id]
DropSelf(hs, image_id) == SelectSeq2(hs, HitIds(hs) \ { image_id })

\* [{"id": image_id, "score": 1.0}] + [it for it in items if it["id"] != image_id]
PinSelf(items, image_id) ==
    << << image_id, 2 >> >> \o SelectSeq2(items, HitIds(items) \ { image_id })

\* GET /api/images/<id>/similar: the status, the items (id, score), the
\* number of candidates asked of the index and whether the seed's vector
\* came from vm.embed_image.
SimilarById(imgs, disk, idx, image_id, k0, include_self, same_category) ==
    LET k == Max2(1, Min2(200, k0))
        seed == GetById(imgs, image_id)
    IN  IF IsNone(seed) \/ Val(seed).path \notin disk
        THEN [ status |-> 404, items |-> << >>, requested |-> 0, encoded |-> FALSE ]
        ELSE LET seed_cat == Strip(CatText(Val(seed).cat))
                 qv == Embed(ContentOf(Val(seed).path))
                 topN == Max2(k * 5, k + 32)
             IN  The({ [ status |-> 200,
                         items |-> IF include_self THEN PinSelf(items, image_id)
                                   ELSE items,
                         requested |-> topN,
                         encoded |-> TRUE ] :
                       items \in
                         { [ i \in DOMAIN c3 |-> << c3[i][1], To01x2(c3[i][2]) >> ] :
                           c3 \in
                             { SubSeq(c2, 1, Min2(k, Len(c2))) :
                               c2 \in
                                 { IF same_category
                                   THEN SameCategory(imgs, c1, seed_cat) ELSE c1 :
                                   c1 \in
                                     { IF include_self THEN raw_hits
                                       ELSE DropSelf(raw_hits, image_id) :
                                       raw_hits \in { FaissSearch(idx, qv, topN) } } } } } })

Similar ==
    \E id \in 1..(Cardinality(SimContents) + 1), k0 \in 0..MaxSimK,
       include_self \in BOOLEAN, same_category \in BOOLEAN :
        /\ running
        /\ Idle
        /\ lastSim' =
             [ made |-> TRUE, seed |-> id, k |-> k0, includeSelf |-> include_self,
               sameCategory |-> same_category,
               out |-> SimilarById(images, files, idmap, id, k0,
                                   include_self, same_category) ]
        /\ lastReq' = NoReq
        /\ UNCHANGED << dbVars, lastUp, faissVars, tagVars, lastRun, auxVars >>

\* return jsonify(...): the response leaves and the request is over.
Respond ==
    /\ ~Idle
    /\ lastReq' = NoReq
    /\ lastSim' = NoSim
    /\ UNCHANGED << dbVars, lastUp, faissVars, tagVars, lastRun, auxVars >>

\* ------------------------------------------------- reads of stored files
\* create_app never sets DATA_DIR: _data_dir() is <root_path>/../data, whose
\* images directory is the default UPLOAD_DIR.
DataRoot == 1

\* _img_store_path(sha) and _thumb_store_path(sha)
ImgStorePath(sha) == StorePath(DataRoot, sha)
ThumbStorePath(sha) == ThumbPath(sha)

\* _resolve_image_path(img): the path to read (None: not found) and the
\* record as the function leaves it.
ResolveImagePath(fs, img) ==
    IF img.path \in fs THEN [ path |-> Some(img.path), rec |-> img ]
    ELSE IF ImgStorePath(img.sha) \in fs
         THEN [ path |-> Some(ImgStorePath(img.sha)),
                rec |-> [ img EXCEPT !.path = ImgStorePath(img.sha) ] ]
         ELSE [ path |-> None, rec |-> img ]

\* _ensure_thumb(src, thumb): returns where the thumbnail is on disk;
\* otherwise it reaches PILImage.open, and images.py binds no name PILImage.
EnsureThumb(fs, thumb) ==
    IF thumb \in fs THEN "ok" ELSE "NameError"

\* _resolve_thumb_path(img): the path, the record, and whether an exception
\* leaves the function.  The handler of the failed _ensure_thumb calls
\* traceback.print_exc(), and images.py binds no name traceback either.
ResolveThumbPath(fs, img) ==
    IF ~IsNone(img.thumb) /\ Val(img.thumb) \in fs
    THEN [ path |-> img.thumb, rec |-> img, raised |-> FALSE ]
    ELSE The({ IF IsNone(src.path)
               THEN [ path |-> None, rec |-> src.rec, raised |-> FALSE ]
               ELSE IF EnsureThumb(fs, ThumbStorePath(img.sha)) = "ok"
                    THEN [ path |-> Some(ThumbStorePath(img.sha)),
                           rec |-> [ src.rec EXCEPT
                                       !.thumb = Some(ThumbStorePath(img.sha)) ],
                           raised |-> FALSE ]
                    ELSE [ path |-> None, rec |-> src.rec, raised |-> TRUE ] :
               src \in { ResolveImagePath(fs, img) } })

\* download(image_id), its resolution of the path: the stored path, else
\* the hash-derived one; the record is left as it is.
DownloadPath(fs, img) ==
    IF img.path \in fs THEN Some(img.path)
    ELSE IF ImgStorePath(img.sha) \in fs THEN Some(ImgStorePath(img.sha))
         ELSE None

\* GET /api/images/<id>/view
ViewImage ==
    \E r \in images :
        /\ running
        /\ Idle
        /\ \E out \in { ResolveImagePath(files, r) } :
               /\ images' = (images \ { r }) \cup { out.rec }
               /\ lastRead' = [ made |-> TRUE, op |-> "view", rec |-> r,
                                present |-> files, path |-> out.path,
                                recAfter |-> out.rec, raised |-> FALSE,
                                status |-> IF IsNone(out.path) THEN 404 ELSE 200 ]
        /\ UNCHANGED << uploadDir, embeddings, ocrRows, auditLog, files,
                        obsVars, faissVars, tagVars, lastPredict, boot, inflight >>

\* GET /api/images/<id>/thumb: the thumbnail, else the original.
ViewThumb ==
    \E r \in images :
        /\ running
        /\ Idle
        /\ \E t \in { ResolveThumbPath(files, r) } :
               \E out \in { IF t.raised \/ ~IsNone(t.path) THEN t
                            ELSE [ path |-> ResolveImagePath(files, t.rec).path,
                                   rec |-> ResolveImagePath(files, t.rec).rec,
                                   raised |-> FALSE ] } :
                   /\ images' = (images \ { r }) \cup { out.rec }
                   /\ lastRead' = [ made |-> TRUE, op |-> "thumb", rec |-> r,
                                    present |-> files, path |-> t.path,
                                    recAfter |-> out.rec, raised |-> t.raised,
                                    status |-> IF t.raised THEN 500
                                               ELSE IF IsNone(out.path) THEN 404
                                               ELSE 200 ]
        /\ UNCHANGED << uploadDir, embeddings, ocrRows, auditLog, files,
                        obsVars, faissVars, tagVars, lastPredict, boot, inflight >>

\* GET /api/images/<id>/download: the audit row, then the file.
Download ==
    \E r \in images :
        /\ running
        /\ Idle
        /\ Len(auditLog) < MaxSimAudit
        /\ auditLog' = Append(auditLog,
                              [ action |-> "download", target |-> r.id, dup |-> FALSE ])
        /\ lastRead' = [ made |-> TRUE, op |-> "download", rec |-> r,
                         present |-> files, path |-> DownloadPath(files, r),
                         recAfter |-> r, raised |-> FALSE,
                         status |-> IF IsNone(DownloadPath(files, r))
                                    THEN 404 ELSE 200 ]
        /\ UNCHANGED << uploadDir, images, embeddings, ocrRows, files,
                        obsVars, faissVars, tagVars, lastPredict, boot, inflight >>

\* POST /api/upload with one file; the thumbnail or the heal commit may fail.
UploadRead ==
    \E sha \in Contents, fault \in { "none", "thumb", "healCommit" } :
        /\ Len(idmap) < MaxEntries
        /\ Len(auditLog) < MaxSimAudit
        /\ UploadWith(<< [ sha |-> sha, fault |-> fault ] >>, FALSE)

NextRead ==
    \/ UploadRead \/ Respond \/ FileLost \/ Restart
    \/ ViewImage \/ ViewThumb \/ Download

\* ================================================================ rebuild
\* The least element of a set of ids.
SetMin(S) == CHOOSE x \in S : \A y \in S : x <= y

\* ORDER BY id ASC
RECURSIVE Ascending(_)
Ascending(S) ==
    IF S = { } THEN << >>
    ELSE << SetMin(S) >> \o Ascending(S \ { SetMin(S) })

\* os.remove(INDEX_PATH) inside try/except: the artifact the store is then
\* constructed on.
AfterRemove(file, removeOk) == IF removeOk THEN None ELSE file

\* A backfill step that computes nothing.
BackfillMissing_none(imgs, embs, disk) == embs

\* scripts/backfill_and_reindex.py, step 2: an embedding row for every
\* image that has none and whose file can be encoded.
BackfillMissing(imgs, embs, disk) ==
    embs \cup { [ id |-> r.id, vec |-> Embed(ContentOf(r.path)) ] :
                  r \in { x \in imgs : /\ IsNone(GetById(embs, x.id))
                                       /\ x.path \in disk } }

\* scripts/backfill_and_reindex.py, step 3: the artifact after the rebuild
\* from the rows of table embedding.
Reindex(embs, file, removeOk) ==
    IF embs = { } THEN file
    ELSE LET ids == Ascending({ e.id : e \in embs })
             new == [ i \in DOMAIN ids |-> Entry(ids[i], Val(GetById(embs, ids[i])).vec) ]
             file0 == AfterRemove(file, removeOk)
         IN  FaissAdd(Val(LoadIfExists(file0)), file0, new).file

\* python scripts/backfill_and_reindex.py
BackfillAndReindex ==
    \E removeOk \in BOOLEAN :
        /\ ~lastRun.made
        /\ ~IsNone(LoadIfExists(indexFile))
        /\ \E embs \in { BackfillMissing(images, embeddings, files) } :
               /\ embeddings' = embs
               /\ indexFile' = Reindex(embs, indexFile, removeOk)
        /\ lastRun' = [ made |-> TRUE, tool |-> "backfill_and_reindex",
                        rebuild |-> TRUE, removeOk |-> removeOk ]
        /\ UNCHANGED << uploadDir, images, ocrRows, auditLog, files, lastUp,
                        lastReq, lastSim, running, idmap, acked, dirty,
                        lastSearch, tagVars, auxVars >>

\* tools/backfill.py: the command lines explored.  limit 0 stands for no
\* --limit, category None for no --category.
BackfillOpts ==
    [ rebuild : BOOLEAN, no_emb : BOOLEAN, no_ocr : BOOLEAN,
      category : { None, Some(L_cat) }, offset : 0..1, limit : 0..1,
      batch_size : 1..MaxAddBatch ]

\* tools/backfill.py: the rows the statement selects, by ascending id.
SelectRows(imgs, opts) ==
    LET ids == Ascending({ r.id : r \in imgs })
        all == [ i \in DOMAIN ids |-> Val(GetById(imgs, ids[i])) ]
        InCat(r) == IsNone(opts.category) \/ r.cat = opts.category
        some == SelectSeq(all, InCat)
        from == SubSeq(some, opts.offset + 1, Len(some))
    IN  IF opts.limit = 0 THEN from
        ELSE SubSeq(from, 1, Min2(opts.limit, Len(from)))

\* tools/backfill.py, one image of a chunk: the rows after it and its pair
\* for the index (none where vec stays None).
BackfillRow(st, img, opts) ==
    LET has == GetById(st.embeddings, img.id)
        canEncode == img.path \in st.files
        vec == IF opts.no_emb THEN None
               ELSE IF ~IsNone(has) THEN Some(Val(has).vec)
               ELSE IF canEncode THEN Some(Embed(ContentOf(img.path)))
               ELSE None
    IN  [ st |-> [ st EXCEPT
                     !.embeddings =
                        IF ~opts.no_emb /\ IsNone(has) /\ canEncode
                        THEN @ \cup { [ id |-> img.id, vec |-> Val(vec) ] } ELSE @,
                     !.ocrRows = IF opts.no_ocr THEN @ ELSE @ \cup { img.id } ],
          pair |-> IF IsNone(vec) THEN << >> ELSE << Entry(img.id, Val(vec)) >> ]

\* tools/backfill.py: the images of one chunk in turn.
RECURSIVE BackfillChunk(_, _, _, _)
BackfillChunk(st, chunk, opts, pairs) ==
    IF chunk = << >> THEN [ st |-> st, pairs |-> pairs ]
    ELSE The({ BackfillChunk(r.st, Tail(chunk), opts, pairs \o r.pair) :
               r \in { BackfillRow(st, Head(chunk), opts) } })

\* add_to_faiss(faiss_store, pairs)
AddToFaiss(st, pairs) ==
    IF pairs = << >> THEN st
    ELSE [ st EXCEPT !.idmap = FaissAdd(st.idmap, st.indexFile, pairs).idx,
                     !.indexFile = FaissAdd(st.idmap, st.indexFile, pairs).file ]

\* tools/backfill.py: the chunks of batch_size rows in turn.
RECURSIVE BackfillBatches(_, _, _)
BackfillBatches(st, rows, opts) ==
    IF rows = << >> THEN st
    ELSE The({ BackfillBatches(AddToFaiss(c.st, c.pairs),
                               SubSeq(rows, Min2(opts.batch_size, Len(rows)) + 1,
                                      Len(rows)),
                               opts) :
               c \in { BackfillChunk(st,
                                     SubSeq(rows, 1, Min2(opts.batch_size, Len(rows))),
                                     opts, << >>) } })

\* python tools/backfill.py [--rebuild] [--no-emb] [--no-ocr] [--category C]
\*                          [--offset N] [--limit N] [--batch-size N]
Backfill ==
    \E opts \in BackfillOpts, removeOk \in BOOLEAN :
        /\ ~lastRun.made
        /\ ~IsNone(LoadIfExists(indexFile))
        /\ \E file0 \in { IF opts.rebuild THEN AfterRemove(indexFile, removeOk)
                           ELSE indexFile } :
             \E out \in { BackfillBatches(
                             [ embeddings |-> embeddings, ocrRows |-> ocrRows,
                               files |-> files, idmap |-> Val(LoadIfExists(file0)),
                               indexFile |-> file0 ],
                             SelectRows(images, opts), opts) } :
               /\ embeddings' = out.embeddings
               /\ ocrRows' = out.ocrRows
               /\ indexFile' = out.indexFile
        /\ lastRun' = [ made |-> TRUE, tool |-> "backfill", rebuild |-> opts.rebuild,
                        removeOk |-> removeOk, opts |-> opts ]
        /\ UNCHANGED << uploadDir, images, auditLog, files, lastUp, lastReq,
                        lastSim, running, idmap, acked, dirty, lastSearch, tagVars, auxVars >>

\* The index artifacts a rebuild may find: none, an empty one, one with the
\* entry of an image deleted since, one with the entries of two images.
PriorFiles ==
    { None } \cup
    { Some(WriteIndex(idx)) :
        idx \in { << >>,
                  << Entry(MaxContents + 1, Embed(MaxContents + 1)) >>,
                  << Entry(1, Embed(1)), Entry(2, Embed(2)) >> } }

\* The image tables a rebuild may find: per content no record or one, its
\* category NULL or the classifier's label.
ImageTables ==
    { S \in SUBSET { [ id |-> c, sha |-> c, path |-> StorePath(1, c),
                       thumb |-> None, cat |-> k ] :
                       c \in Contents, k \in { None } \cup { Some(PrimaryOf(d)) : d \in Contents } } :
        \A r1, r2 \in S : r1.sha = r2.sha => r1 = r2 }

\* A stopped application: any image table, the files of some records lost,
\* embedding rows for some records, any prior artifact.
StoppedApp ==
    /\ images \in ImageTables
    /\ files \in SUBSET { r.path : r \in images }
    /\ embeddings \in { { [ id |-> i, vec |-> Embed(i) ] : i \in I } :
                           I \in SUBSET { r.id : r \in images } }
    /\ indexFile \in PriorFiles
    /\ uploadDir = 1
    /\ ocrRows = { }
    /\ auditLog = << >>
    /\ lastUp = [ c \in SimContents |-> None ]
    /\ lastReq = NoReq
    /\ lastSim = NoSim
    /\ lastRun = NoRun
    /\ lastPredict = NoPredict
    /\ inflight = NoThreads
    /\ lastRead = NoRead
    /\ running = FALSE
    /\ idmap = << >>
    /\ acked = { }
    /\ dirty = FALSE
    /\ lastSearch = NoSearch
    /\ TagIdle

InitRebuild == StoppedApp /\ boot = NoBoot

NextRebuild == BackfillAndReindex \/ Backfill

\* -------------------------------------------------------------- audit log
\* POST /api/upload of one file; the commit of the audit row may fail.
UploadAudit ==
    \E sha \in Contents, fault \in { "none", "audit" } :
        /\ Len(idmap) < MaxEntries
        /\ Len(auditLog) < MaxSimAudit
        /\ UploadWith(<< [ sha |-> sha, fault |-> fault ] >>, FALSE)

\* The operations that touch table audit_log, and the loss of a file that
\* sends an upload down the heal branch.
NextAudit == UploadAudit \/ Respond \/ DeleteImage \/ FileLost

\* ----------------------------------------------- provider failure, backfill
\* POST /api/upload of one file; EMB.encode_image may raise in the embedding
\* stage.
UploadEmb ==
    \E sha \in Contents, fault \in { "none", "emb" } :
        /\ Len(idmap) < MaxEntries
        /\ Len(auditLog) < MaxSimAudit
        /\ UploadWith(<< [ sha |-> sha, fault |-> fault ] >>, FALSE)

\* The service takes uploads; the rebuild script is run once at some point.
NextRecover == UploadEmb \/ Respond \/ BackfillAndReindex

\* ------------------------------------------------- the steps of a rebuild
\* scripts/rebuild_faiss.py: a fresh IndexIDMap2 with the rows of table
\* embedding by ascending id, as faiss.write_index spells it.
RebuildFaiss(embs) ==
    LET ids == Ascending({ e.id : e \in embs })
    IN  Some(WriteIndex([ i \in DOMAIN ids |->
                            Entry(ids[i], Val(GetById(embs, ids[i])).vec) ]))

\* The scripts that rebuild the whole index.
RebuildTools == { "backfill_and_reindex", "rebuild_faiss" }

\* The script has read table embedding (backfill_and_reindex.py after
\* filling in the missing rows) and is about to write: backfill_and_reindex
\* first removes the old artifact, rebuild_faiss leaves it in place.  Both
\* stop here when the table is empty.
RebuildBegin ==
    \E tool \in RebuildTools, removeOk \in BOOLEAN :
        /\ ~lastRun.made
        /\ ~IsNone(LoadIfExists(indexFile))
        /\ \E embs \in { IF tool = "backfill_and_reindex"
                          THEN BackfillMissing(images, embeddings, files)
                          ELSE embeddings } :
               /\ embs # { }
               /\ embeddings' = embs
               /\ indexFile' = IF tool = "backfill_and_reindex"
                               THEN AfterRemove(indexFile, removeOk) ELSE indexFile
               /\ lastRun' = [ made |-> TRUE, tool |-> tool, pc |-> "begun",
                               old |-> indexFile,
                               new |-> IF tool = "backfill_and_reindex"
                                       THEN Reindex(embs, indexFile, removeOk)
                                       ELSE RebuildFaiss(embs) ]
        /\ UNCHANGED << uploadDir, images, ocrRows, auditLog, files, lastUp,
                        lastReq, lastSim, running, idmap, acked, dirty,
                        lastSearch, tagVars, auxVars >>

\* faiss.write_index(index, path) under way: the file was opened for
\* writing, which empties it, and some of its words are on disk.
RebuildWrite ==
    /\ lastRun.made
    /\ lastRun.pc = "begun"
    /\ \E n \in 0..(Len(Val(lastRun.new)) - 1) :
           indexFile' = Some(SubSeq(Val(lastRun.new), 1, n))
    /\ lastRun' = [ lastRun EXCEPT !.pc = "writing" ]
    /\ UNCHANGED << uploadDir, images, embeddings, ocrRows, auditLog, files,
                        lastUp, lastReq, lastSim, running, idmap, acked, dirty,
                        lastSearch, tagVars, auxVars >>

\* write_index returns: every word is on disk.
RebuildFinish ==
    /\ lastRun.made
    /\ lastRun.pc = "writing"
    /\ indexFile' = lastRun.new
    /\ lastRun' = [ lastRun EXCEPT !.pc = "done" ]
    /\ UNCHANGED << uploadDir, images, embeddings, ocrRows, auditLog, files,
                    lastUp, lastReq, lastSim, running, idmap, acked, dirty,
                    lastSearch, tagVars, auxVars >>

\* The script's process dies before it is done.
RebuildCrash ==
    /\ lastRun.made
    /\ lastRun.pc \in { "begun", "writing" }
    /\ lastRun' = [ lastRun EXCEPT !.pc = "crashed" ]
    /\ UNCHANGED << uploadDir, images, embeddings, ocrRows, auditLog, files,
                    lastUp, lastReq, lastSim, running, idmap, indexFile, acked,
                    dirty, lastSearch, tagVars, auxVars >>

NextAtomic == RebuildBegin \/ RebuildWrite \/ RebuildFinish \/ RebuildCrash

\* ------------------------------------- concurrent requests on the index
\* run.py serves with app.run, one thread per request; every thread uses
\* the one FaissStore of app.extensions.  The index step of
\* _upsert_embedding_and_index, statement by statement.

\* The bytes a writer leaves in a file that another writer has filled in
\* the meantime: its own words from the start, what lay beyond them stays.
Overlay(words, cur) ==
    words \o SubSeq(cur, Len(words) + 1, Len(cur))

\* A request reaches the index step with the id and the vector of its image.
IndexStepEnter(t) ==
    \E i \in 1..MaxId, v \in StoredVecs :
        /\ running
        /\ inflight[t].pc = "idle"
        /\ Len(idmap) < MaxEntries
        /\ \A u \in Threads :
               IF inflight[u].pc = "idle" THEN TRUE ELSE inflight[u].id # i
        /\ inflight' = [ inflight EXCEPT ![t] = [ pc |-> "ready", id |-> i, vec |-> v ] ]
        /\ UNCHANGED << faissVars, dbVars, obsVars, tagVars, lastPredict, boot,
                    lastRead >>

\* fs.add: self._idmap.add_with_ids(vecs, ids).
AddWithIds(t) ==
    /\ inflight[t].pc = "ready"
    /\ idmap' = Append(idmap, Entry(inflight[t].id, inflight[t].vec))
    /\ inflight' = [ inflight EXCEPT ![t].pc = "added" ]
    /\ UNCHANGED << running, indexFile, acked, dirty, lastSearch, dbVars,
                    obsVars, tagVars, lastPredict, boot,
                    lastRead >>

\* faiss.write_index opens the artifact for writing, which empties it, and
\* serialises the index as it stands: the save inside fs.add, then the
\* handler's own fs.save().
WriteOpen(t) ==
    /\ inflight[t].pc \in { "added", "saved" }
    /\ indexFile' = Some(<< >>)
    /\ inflight' = [ inflight EXCEPT
                       ![t] = [ pc |-> IF inflight[t].pc = "added"
                                       THEN "writing" ELSE "writing again",
                                id |-> inflight[t].id, vec |-> inflight[t].vec,
                                words |-> WriteIndex(idmap) ] ]
    /\ UNCHANGED << running, idmap, acked, dirty, lastSearch, dbVars,
                    obsVars, tagVars, lastPredict, boot,
                    lastRead >>

\* write_index flushes its words and closes the file.
WriteClose(t) ==
    /\ inflight[t].pc \in { "writing", "writing again" }
    /\ indexFile' = Some(Overlay(inflight[t].words, Val(indexFile)))
    /\ inflight' = [ inflight EXCEPT
                       ![t].pc = IF inflight[t].pc = "writing"
                                 THEN "saved" ELSE "done" ]
    /\ UNCHANGED << running, idmap, acked, dirty, lastSearch, dbVars,
                    obsVars, tagVars, lastPredict, boot,
                    lastRead >>

NextMutex ==
    \E t \in Threads :
        IndexStepEnter(t) \/ AddWithIds(t) \/ WriteOpen(t) \/ WriteClose(t)

\* A thread is between the first and the last statement of its index step.
InIndexStep(t) ==
    inflight[t].pc \in { "added", "writing", "saved", "writing again" }

\* ------------------------------------ uploads and backfills side by side
\* POST /api/upload with one file; the commit of the embedding row may
\* fail.
UploadKeep ==
    \E sha \in Contents, fault \in { "none", "embCommit" } :
        /\ Len(idmap) < MaxEntries
        /\ Len(auditLog) < MaxSimAudit
        /\ UploadWith(<< [ sha |-> sha, fault |-> fault ] >>, FALSE)

\* The service takes uploads and deletions; one of the backfill tools is
\* run at some point.
NextKeep ==
    \/ UploadKeep \/ Respond \/ FileLost \/ DeleteImage
    \/ BackfillAndReindex \/ Backfill

\* ------------------------------------ concurrent uploads, step by step
\* The handler of POST /api/upload for one file, in a request thread:
\* the lookup by hash, the move into the store, the insert, the stages.

\* The database and disk as a stage sees them, and what it leaves behind.
Apply(st) ==
    /\ images' = st.images
    /\ embeddings' = st.embeddings
    /\ ocrRows' = st.ocrRows
    /\ auditLog' = st.auditLog
    /\ files' = st.files
    /\ idmap' = st.idmap
    /\ indexFile' = st.indexFile

\* file.save, _sha256_file, ImageModel.query.filter_by(sha256=sha).first()
UpLookup(t) ==
    \E sha \in Contents :
        /\ running
        /\ inflight[t].pc = "idle"
        /\ inflight' = [ inflight EXCEPT
                           ![t] = [ pc |-> "looked", sha |-> sha,
                                    existed |-> FindBySha(images, sha) ] ]
        /\ UNCHANGED << faissVars, dbVars, obsVars, tagVars, lastPredict, boot,
                        lastRead >>

\* A record was found: the duplicate branch, or the heal branch where its
\* file is missing.  None was found: os.replace(tmp_path, dst_path) and
\* _gen_thumb.
UpBranch(t) ==
    /\ inflight[t].pc = "looked"
    /\ Len(idmap) < MaxEntries
    /\ IF IsNone(inflight[t].existed)
       THEN /\ files' = WithThumb(files \cup { StorePath(uploadDir, inflight[t].sha) },
                                  GenThumb(inflight[t].sha, "none"))
            /\ inflight' = [ inflight EXCEPT ![t].pc = "moved" ]
            /\ UNCHANGED << images, embeddings, ocrRows, auditLog, idmap, indexFile >>
       ELSE \E rec \in { Val(GetById(images, Val(inflight[t].existed).id)) } :
              \E out \in { IF rec.path \in files
                           THEN DuplicateBranch(Snapshot, rec, FALSE, "none")
                           ELSE HealBranch(Snapshot, uploadDir, rec, FALSE, "none") } :
                  /\ Apply(out.st)
                  /\ inflight' = [ inflight EXCEPT
                                     ![t] = [ pc |-> "done", sha |-> inflight[t].sha,
                                              res |-> out.res ] ]
    /\ UNCHANGED << uploadDir, running, acked, dirty, lastSearch, obsVars,
                    tagVars, lastPredict, boot, lastRead >>

\* db.session.add(image); db.session.commit().  Column sha256 is unique:
\* with a row of the hash in the table the commit raises, and the handler
\* removes target_path and thumb_path.
UpInsert(t) ==
    /\ inflight[t].pc = "moved"
    /\ IF \E r \in images : r.sha = inflight[t].sha
       THEN /\ files' = (files \ { StorePath(uploadDir, inflight[t].sha) })
                          \ Range(GenThumb(inflight[t].sha, "none"))
            /\ inflight' = [ inflight EXCEPT
                               ![t] = [ pc |-> "done", sha |-> inflight[t].sha,
                                        res |-> ErrorResult ] ]
            /\ UNCHANGED images
       ELSE /\ images' = images \cup
                           { [ id |-> NextImageId(images), sha |-> inflight[t].sha,
                               path |-> StorePath(uploadDir, inflight[t].sha),
                               thumb |-> GenThumb(inflight[t].sha, "none"),
                               cat |-> None ] }
            /\ inflight' = [ inflight EXCEPT
                               ![t] = [ pc |-> "inserted", sha |-> inflight[t].sha,
                                        id |-> NextImageId(images) ] ]
            /\ UNCHANGED files
    /\ UNCHANGED << uploadDir, embeddings, ocrRows, auditLog, faissVars, obsVars,
                    tagVars, lastPredict, boot, lastRead >>

\* _audit, _upsert_embedding_and_index, _upsert_ocr, _auto_tag, the result.
UpStages(t) ==
    /\ inflight[t].pc = "inserted"
    /\ Len(idmap) < MaxEntries
    /\ \E out \in { Enrich(AuditStage(Snapshot, inflight[t].id, FALSE, "none"),
                           inflight[t].id, FALSE, "none") } :
           /\ Apply(out.st)
           /\ inflight' = [ inflight EXCEPT
                              ![t] = [ pc |-> "done", sha |-> inflight[t].sha,
                                       res |-> OkResult(inflight[t].id, FALSE,
                                                        out.tag) ] ]
    /\ UNCHANGED << uploadDir, running, acked, dirty, lastSearch, obsVars,
                    tagVars, lastPredict, boot, lastRead >>

NextRace ==
    \E t \in Threads : UpLookup(t) \/ UpBranch(t) \/ UpInsert(t) \/ UpStages(t)

\* ================================================================ start-up
\* FaissStore.load(): idx is read from the artifact if it exists; the
\* attribute the method then assigns is self.index, not self._idmap, the
\* index add and search work on.  The result: the store's attributes and
\* whether read_index raised.
Load(store, file) ==
    IF IsNone(file) THEN [ store |-> store, raised |-> FALSE ]
    ELSE IF IsNone(ReadIndex(Val(file))) THEN [ store |-> store, raised |-> TRUE ]
    ELSE [ store |-> [ store EXCEPT !.index = ReadIndex(Val(file)) ],
           raised |-> FALSE ]

\* A stopped application with the start of the process still to come.
InitStart == StoppedApp /\ boot = [ pc |-> "down" ]

\* create_app: fs = FaissStore(dim=..., index_path=...).  The constructor
\* reads the artifact; one that does not parse makes it raise outside the
\* try block and the process does not come up.
Construct ==
    /\ boot.pc = "down"
    /\ ~IsNone(LoadIfExists(indexFile))
    /\ idmap' = Val(LoadIfExists(indexFile))
    /\ boot' = [ pc |-> "constructed", index |-> None ]
    /\ UNCHANGED << running, indexFile, acked, dirty, lastSearch, lastPredict, inflight, lastRead,
                    tagVars, dbVars, obsVars >>

\* create_app: fs.load() inside try, then the store is published in
\* app.extensions.  Noted: the index in memory and the artifact as load()
\* returned.
StartLoad ==
    /\ boot.pc = "constructed"
    /\ \E r \in { Load([ _idmap |-> idmap, index |-> boot.index ], indexFile) } :
           /\ idmap' = r.store._idmap
           /\ boot' = [ pc |-> "up", index |-> r.store.index, raised |-> r.raised,
                        mem |-> r.store._idmap, file |-> indexFile ]
    /\ running' = TRUE
    /\ UNCHANGED << indexFile, acked, dirty, lastSearch, lastPredict, inflight, lastRead,
                    tagVars, dbVars, obsVars >>

\* The process is stopped.
Stop ==
    /\ boot.pc = "up"
    /\ boot' = [ pc |-> "down" ]
    /\ running' = FALSE
    /\ idmap' = << >>
    /\ UNCHANGED << indexFile, acked, dirty, lastSearch, lastPredict, inflight, lastRead,
                    tagVars, dbVars, obsVars >>

\* The rebuild script is a process of its own: it runs before, during or
\* after the start of the application.
NextStart == Construct \/ StartLoad \/ Stop \/ BackfillAndReindex

\* ====================================================== writers of category
\* The folders tools/ingest_base.py finds under its root, named by whoever
\* laid the data set out: a canonical name, a plural, another canonical name.
FolderNames == { L_cat, Plural(L_cat), L_dog }

\* The hexadecimal digits that stand for the contents' hashes.
HexDigits == << "1", "2", "3" >>

\* sha[:2], the name of the first directory under UPLOAD_DIR.
HexPrefix(sha) == << "0", HexDigits[sha] >>

L_uncategorized ==
    << "u", "n", "c", "a", "t", "e", "g", "o", "r", "i", "z", "e", "d" >>

\* tools/backfill_category.py guess_category(path): the path segment after
\* /images/ or /uploads/, else "uncategorized".  The default UPLOAD_DIR is
\* <cwd>/data/images, so for a stored file the segment is sha[:2]; the
\* directory the store was moved to has neither word in its name.
GuessCategory(path) ==
    IF path[2] = 1 THEN HexPrefix(ContentOf(path)) ELSE L_uncategorized

\* tools/ingest_base.py ingest_one(app, src_path, category): the table and
\* the files after it.  A record whose file is missing is not recognised as
\* a duplicate: the file is copied and the INSERT of a second row with the
\* same sha256 raises.
IngestOne(imgs, disk, root, sha, category) ==
    LET existed == FindBySha(imgs, sha)
        dst == StorePath(root, sha)
    IN  IF ~IsNone(existed) /\ dst \in disk
        THEN [ images |-> imgs, files |-> disk ]
        ELSE IF ~IsNone(existed)
        THEN [ images |-> imgs, files |-> disk \cup { dst, ThumbPath(sha) } ]
        ELSE [ images |-> imgs \cup
                 { [ id |-> NextImageId(imgs), sha |-> sha, path |-> dst,
                     thumb |-> Some(ThumbPath(sha)), cat |-> Some(category) ] },
               files |-> disk \cup { dst, ThumbPath(sha) } ]

\* not r.category
EmptyCategory(cat) == IsNone(cat) \/ Val(cat) = << >>

\* tools/backfill_category.py main(): every row without a category gets the
\* guess from its path.
BackfillCategoryRows(imgs) ==
    { IF EmptyCategory(r.cat) THEN [ r EXCEPT !.cat = Some(GuessCategory(r.path)) ]
      ELSE r : r \in imgs }

\* scripts/retag_existing.py, one row: canonicalize(res.primary) or
\* res.primary; a file that cannot be read is skipped.
RetagRow(r, disk, force) ==
    IF (force \/ EmptyCategory(r.cat)) /\ r.path \in disk
    THEN LET primary == PrimaryOf(ContentOf(r.path))
             canon == canonicalize(Some(primary))
         IN  [ r EXCEPT !.cat = IF IsNone(canon) THEN Some(primary) ELSE canon ]
    ELSE r

\* POST /api/upload of one file with or without force_tag.
UploadTag ==
    \E sha \in Contents, fault \in { "none", "tag" }, force \in BOOLEAN :
        /\ Len(idmap) < MaxEntries
        /\ Len(auditLog) < MaxSimAudit
        /\ UploadWith(<< [ sha |-> sha, fault |-> fault ] >>, force)

\* python tools/ingest_base.py <root>: one file of one folder.
IngestBase ==
    \E sha \in Contents, folder \in FolderNames :
        /\ Idle
        /\ \E out \in { IngestOne(images, files, uploadDir, sha, Strip(folder)) } :
               /\ images' = out.images
               /\ files' = out.files
        /\ UNCHANGED << uploadDir, embeddings, ocrRows, auditLog, obsVars,
                        faissVars, tagVars, auxVars >>

\* python tools/backfill_category.py
BackfillCategory ==
    /\ Idle
    /\ images' = BackfillCategoryRows(images)
    /\ UNCHANGED << uploadDir, embeddings, ocrRows, auditLog, files, obsVars,
                    faissVars, tagVars, auxVars >>

\* python scripts/retag_existing.py [--force]
RetagExisting ==
    \E force \in BOOLEAN :
        /\ Idle
        /\ images' = { RetagRow(r, files, force) : r \in images }
        /\ UNCHANGED << uploadDir, embeddings, ocrRows, auditLog, files, obsVars,
                        faissVars, tagVars, auxVars >>

NextTag ==
    UploadTag \/ Respond \/ IngestBase \/ BackfillCategory \/ RetagExisting \/ FileLost


Next == Upload \/ Respond \/ FileLost \/ Restart

NextSimilar == UploadOne \/ Respond \/ DeleteImage \/ Similar \/ FileLost

vars == << tagVars, faissVars, dbVars, obsVars, auxVars >>

Spec == Init /\ [][Next]_vars

SpecCanon == InitCanon /\ [][NextCanon]_vars

SpecIndex == InitIndex /\ [][NextIndex]_vars

SpecSimilar == Init /\ [][NextSimilar]_vars

SpecRebuild == InitRebuild /\ [][NextRebuild]_vars

SpecTag == Init /\ [][NextTag]_vars

SpecPredict == InitPredict /\ [][NextPredict]_vars

SpecStart == InitStart /\ [][NextStart]_vars

SpecRecover == Init /\ [][NextRecover]_vars

SpecAudit == Init /\ [][NextAudit]_vars

SpecAtomic == InitRebuild /\ [][NextAtomic]_vars

SpecMutex == Init /\ [][NextMutex]_vars

SpecRead == Init /\ [][NextRead]_vars

SpecKeep == Init /\ [][NextKeep]_vars

SpecRace == Init /\ [][NextRace]_vars

\* C9: canonicalize is the identity on every canonical label, maps every
\* alias key (plural, synonym) to a member of the canonical vocabulary, maps
\* a label whose folded text (trimmed, lower-cased, "_" as blank) is neither
\* to None, and applying it to its own result gives that result again.
C9_Canonicalize ==
    /\ tagPc \in { "once", "twice" } =>
        /\ (~IsNone(tagLabel) /\ Val(tagLabel) \in CanonSet) => tagOut = tagLabel
        /\ (~IsNone(tagLabel) /\ Val(tagLabel) \in AliasKeys) =>
              (~IsNone(tagOut) /\ Val(tagOut) \in CanonSet)
        /\ NormLabel(tagLabel) \notin (CanonSet \cup AliasKeys) => IsNone(tagOut)
        /\ ~IsNone(tagOut) => Val(tagOut) \in CanonSet
    /\ tagPc = "twice" => tagAgain = tagOut

\* A plural spelt with a capital and blanks has been folded to its singular
\* and canonicalized a second time.
C9_Witness ==
    /\ tagPc = "twice"
    /\ tagLabel = Some(<< " ", "C", "a", "t", "s" >>)
    /\ tagOut = Some(L_cat)

\* C4: every entry of an add call that returned normally can be read back
\* from the artifact, in every state, a crash inside a later add included.
C4_AckedRecoverable == acked \subseteq Recoverable(indexFile)

\* C5: a search on the running store whose last add was persisted and the
\* same search on a store freshly opened from the artifact return the same
\* ranked list of (id, score).
C5_RoundTrip ==
    (lastSearch.made /\ ~dirty) =>
        lastSearch.reopened = Some(lastSearch.hits)

\* Two entries with different scores have been added, persisted and found
\* by both stores.
C5_Witness ==
    /\ lastSearch.made
    /\ ~dirty
    /\ ~IsNone(indexFile)
    /\ Len(lastSearch.hits) >= 2
    /\ lastSearch.hits[1][2] > lastSearch.hits[2][2]
    /\ lastSearch.reopened = Some(lastSearch.hits)

\* C6: search returns its pairs in non-increasing score order, none of them
\* with the sentinel id -1, and nothing at all from an index with no entry.
C6_SearchResult ==
    lastSearch.made =>
        /\ \A i \in 1..(Len(lastSearch.hits) - 1) :
               lastSearch.hits[i][2] >= lastSearch.hits[i + 1][2]
        /\ \A i \in DOMAIN lastSearch.hits : lastSearch.hits[i][1] # -1
        /\ lastSearch.ntotal = 0 => lastSearch.hits = << >>

\* A search asked for more entries than the index holds and got them all,
\* best first, without the empty slots.
C6_Witness ==
    /\ lastSearch.made
    /\ lastSearch.ntotal >= 2
    /\ lastSearch.k > lastSearch.ntotal
    /\ Len(lastSearch.hits) = lastSearch.ntotal
    /\ lastSearch.hits[1][2] > lastSearch.hits[2][2]

\* C1: an upload that stores bytes the drive has no record of reports
\* duplicate=false, and the next upload of the same bytes, the stored file
\* still in place, reports the same image id with duplicate=true (and so
\* does every upload after it).
C1_SameBytesTwice ==
    lastReq.made =>
        \A i \in DOMAIN lastReq.events :
            LET e == lastReq.events[i]
            IN  e.res.kind = "ok" =>
                  /\ e.existed = 0 => ~e.res.dup
                  /\ (~IsNone(e.prev) /\ (Val(e.prev).first \/ Val(e.prev).dup)) =>
                        (e.res.id = Val(e.prev).id /\ e.res.dup)

\* The same bytes went up in two requests: stored first, a duplicate next.
C1_Witness ==
    /\ lastReq.made
    /\ Len(lastReq.events) = 1
    /\ lastReq.events[1].res.kind = "ok"
    /\ lastReq.events[1].res.dup
    /\ ~IsNone(lastReq.events[1].prev)
    /\ Val(lastReq.events[1].prev).first
    /\ ~Val(lastReq.events[1].prev).dup
    /\ Val(lastReq.events[1].prev).id = lastReq.events[1].res.id

\* C2: no step of the drive leaves two image records with one content
\* hash, and a record keeps its id and its content hash through every
\* upload: new, duplicate or healing, with or without a failing stage.
C2_OneRecordPerHash ==
    [][ /\ \A r1, r2 \in images' : r1.sha = r2.sha => r1 = r2
        /\ \A r \in images : \E q \in images' : q.id = r.id /\ q.sha = r.sha
        /\ \A r \in images, q \in images' :
               (q.id = r.id \/ q.sha = r.sha) => (q.id = r.id /\ q.sha = r.sha)
      ]_vars

\* A record was healed by an upload one of whose later stages failed, with
\* a second record in the table.
C2_Witness ==
    /\ lastReq.made
    /\ Cardinality(images) = 2
    /\ \E i \in DOMAIN lastReq.events :
           /\ lastReq.events[i].existed # 0
           /\ ~lastReq.events[i].present
           /\ lastReq.events[i].res.kind = "ok"
           /\ lastReq.events[i].fault \in { "emb", "ocr", "tag", "audit" }

\* C3: an upload that finds a record for its hash whose file is missing
\* and answers with a success has put the file at the canonical path of the
\* hash, has set the record's path to that path, returns the record's id
\* and leaves the number of records as it was.
C3_HealMissingFile ==
    lastReq.made =>
        \A i \in DOMAIN lastReq.events :
            LET e == lastReq.events[i]
            IN  (e.existed # 0 /\ ~e.present /\ e.res.kind = "ok") =>
                  /\ e.stored
                  /\ ~IsNone(e.recAfter)
                  /\ Val(e.recAfter).path = StorePath(uploadDir, e.sha)
                  /\ e.res.id = e.existed
                  /\ Val(e.recAfter).id = e.existed
                  /\ e.rowsAfter = e.rowsBefore

\* C10: a request with n files is answered with n results in the order of
\* the files, each a success with an image id or an error, and a file none
\* of whose own stages fails gets a success whatever fails for another file.
C10_BatchResults ==
    (lastReq.made /\ lastReq.batch # << >>) =>
        /\ lastReq.status = 200
        /\ Len(lastReq.saved) = Len(lastReq.batch)
        /\ \A i \in DOMAIN lastReq.saved :
               /\ \/ lastReq.saved[i].kind = "ok" /\ lastReq.saved[i].id >= 1
                  \/ lastReq.saved[i].kind = "error"
               /\ lastReq.batch[i].fault = "none" => lastReq.saved[i].kind = "ok"

\* C7: with same_category on, every id a similar-images request returns
\* that has a record has the seed's category, an empty and a NULL category
\* counting as the same; with include_self on or off.
C7_SameCategoryOnly ==
    (lastSim.made /\ lastSim.sameCategory /\ lastSim.out.status = 200) =>
        LET seed == Val(GetById(images, lastSim.seed))
        IN  \A i \in DOMAIN lastSim.out.items :
                \A r \in images :
                    r.id = lastSim.out.items[i][1] =>
                        CatText(r.cat) = CatText(seed.cat)

\* The index held an image of the seed's category and one of another
\* category; the request kept the first and dropped the second.
C7_Witness ==
    /\ lastSim.made
    /\ lastSim.sameCategory
    /\ ~lastSim.includeSelf
    /\ lastSim.out.status = 200
    /\ Len(lastSim.out.items) >= 1
    /\ \E r \in images :
           /\ r.id # lastSim.seed
           /\ CatText(r.cat) # CatText(Val(GetById(images, lastSim.seed)).cat)
           /\ \E j \in DOMAIN idmap : idmap[j].id = r.id
    /\ \E r \in images :
           /\ r.id = lastSim.out.items[1][1]
           /\ r.cat # None

\* C8: after a rebuild tool has run, the index read from the artifact has
\* as many entries as table embedding has rows and its ids are those of the
\* rows, one entry each, whatever the artifact held before the run and
\* whatever options the tool was given.
C8_RebuildMatchesRows ==
    (lastRun.made /\ lastRun.rebuild) =>
        LET idx == Val(LoadIfExists(indexFile))
        IN  /\ Len(idx) = Cardinality(embeddings)
            /\ { idx[i].id : i \in DOMAIN idx } = { e.id : e \in embeddings }

\* C11: the auto-tag stage of an upload leaves a non-empty category as it is
\* unless force is set: where the record had a category before the file was
\* handled and the request carried no force flag, the record has the same
\* category afterwards and the stage reports no label written.
C11_KeepsCategory ==
    lastReq.made =>
        \A i \in DOMAIN lastReq.events :
            LET e == lastReq.events[i]
                before == IF IsNone(e.recBefore) THEN None ELSE Val(e.recBefore).cat
                after == IF IsNone(e.recAfter) THEN None ELSE Val(e.recAfter).cat
            IN  (~EmptyCategory(before) /\ ~lastReq.force) =>
                    (after = before /\ IsNone(e.res.tag))

\* An upload without force has met a record whose category is not the label
\* the classifier gives its bytes, and has answered for it.
C11_Witness ==
    /\ lastReq.made
    /\ ~lastReq.force
    /\ \E i \in DOMAIN lastReq.events :
           LET e == lastReq.events[i]
           IN  /\ e.res.kind = "ok"
               /\ e.fault = "none"
               /\ ~IsNone(e.recBefore)
               /\ ~EmptyCategory(Val(e.recBefore).cat)
               /\ Val(Val(e.recBefore).cat) # PrimaryOf(e.sha)

\* C12: every non-empty stored category is a member of the canonical
\* vocabulary, whichever writer stored it.
C12_StoredCanonical ==
    \A r \in images : ~EmptyCategory(r.cat) => Val(r.cat) \in CanonSet

\* The score predict_labels was given for a label of its list.
ScoreOfLabel(l) ==
    lastPredict.scores[CHOOSE i \in 1..MaxLabels : LabelList[i] = l]

\* The labels of the list that score at or above the threshold.
ClearingLabels ==
    { l \in Range(LabelList) : ScoreOfLabel(l) >= lastPredict.threshold }

\* C13 as stated: the label set is exactly the set of labels scoring at or
\* above the threshold when there is one, otherwise exactly the top label;
\* it is never empty and contains the primary label, an arg-max label.
C13_ExactlyThreshold ==
    lastPredict.made =>
        LET got == Range(lastPredict.out.labels)
        IN  /\ got # { }
            /\ lastPredict.out.primary \in got
            /\ \A l \in Range(LabelList) :
                   ScoreOfLabel(lastPredict.out.primary) >= ScoreOfLabel(l)
            /\ IF ClearingLabels # { } THEN got = ClearingLabels
               ELSE got = { lastPredict.out.primary }

\* C13 amended: the label set is the max(1, top_k) highest-scoring labels
\* among those scoring at or above the threshold (all of them when there are
\* no more than that) when there is one, otherwise exactly the top label; it
\* is never empty and contains the primary label, an arg-max label.
C13_TopKOfThreshold ==
    lastPredict.made =>
        LET got == Range(lastPredict.out.labels)
            n == Max2(1, lastPredict.top_k)
        IN  /\ got # { }
            /\ Cardinality(got) = Len(lastPredict.out.labels)
            /\ lastPredict.out.primary \in got
            /\ \A l \in Range(LabelList) :
                   ScoreOfLabel(lastPredict.out.primary) >= ScoreOfLabel(l)
            /\ IF ClearingLabels # { }
               THEN /\ got \subseteq ClearingLabels
                    /\ Cardinality(got) = Min2(n, Cardinality(ClearingLabels))
                    /\ \A l \in got, m \in ClearingLabels \ got :
                           ScoreOfLabel(l) >= ScoreOfLabel(m)
               ELSE got = { lastPredict.out.primary }

\* predict_labels has answered for scores of which more than top_k clear the
\* threshold, one of them equal to it.
C13_Witness ==
    /\ lastPredict.made
    /\ Cardinality(ClearingLabels) > Max2(1, lastPredict.top_k)
    /\ \E l \in Range(lastPredict.out.labels) :
           ScoreOfLabel(l) = lastPredict.threshold

\* C14: a similar-images request asks the index for max(k*5, k+32)
\* candidates and answers with at most k items, for every combination of
\* include_self and same_category and every state of the index (k is the
\* requested number brought into 1..200).
C14_AtMostK ==
    (lastSim.made /\ lastSim.out.status = 200) =>
        LET k == Max2(1, Min2(200, lastSim.k))
        IN  /\ lastSim.out.requested = Max2(k * 5, k + 32)
            /\ Len(lastSim.out.items) <= k

\* C15: with include_self false the seed's id is not among the items; with
\* include_self true it is the first item and occurs once.
C15_SeedInResults ==
    (lastSim.made /\ lastSim.out.status = 200) =>
        LET items == lastSim.out.items
            at == { i \in DOMAIN items : items[i][1] = lastSim.seed }
        IN  IF lastSim.includeSelf THEN at = { 1 } ELSE at = { }

\* A request with include_self has been answered for a seed that the index
\* holds next to another image, with more than the seed among the items.
C15_Witness ==
    /\ lastSim.made
    /\ lastSim.out.status = 200
    /\ lastSim.includeSelf
    /\ \E i \in DOMAIN idmap : idmap[i].id = lastSim.seed
    /\ \E i \in DOMAIN idmap : idmap[i].id # lastSim.seed
    /\ Len(lastSim.out.items) > 1

\* C16: the seed's vector comes from the stored embedding row; the provider
\* is called only when there is none, and a seed that has a row is answered
\* whether or not its file is on disk.
C16_SeedFromRecord ==
    (lastSim.made /\ ~IsNone(GetById(embeddings, lastSim.seed))) =>
        /\ lastSim.out.status = 200
        /\ ~lastSim.out.encoded

\* C17: when load() has returned, the index in memory equals the content of
\* the artifact if the artifact exists and is empty otherwise, and a missing
\* artifact raises nothing.
C17_LoadedEqualsArtifact ==
    (boot.pc = "up" /\ ~boot.raised) =>
        boot.mem = IF IsNone(boot.file) THEN << >>
                   ELSE Val(ReadIndex(Val(boot.file)))

\* C18 as stated: an upload that hits an image id which already has an
\* embedding row makes no call to the embedding provider, and when it has
\* returned the index holds an entry for that id.
C18_NoProviderCall ==
    lastReq.made =>
        \A i \in DOMAIN lastReq.events :
            LET e == lastReq.events[i]
            IN  e.hadVec =>
                    /\ e.calls = << >>
                    /\ \E j \in DOMAIN idmap : idmap[j].id = e.res.id

\* C18 amended: an upload that hits an image id which already has an
\* embedding row makes no call to the embedding provider in its embedding
\* stage, and when it has returned the index holds an entry for that id,
\* also when the row was committed earlier and the entry never reached the
\* index the process has loaded.
C18_NoReencode ==
    lastReq.made =>
        \A i \in DOMAIN lastReq.events :
            LET e == lastReq.events[i]
            IN  e.hadVec =>
                    /\ "emb" \notin Range(e.calls)
                    /\ \E j \in DOMAIN idmap : idmap[j].id = e.res.id

\* A duplicate upload has met a row whose entry the index did not hold: the
\* one entry for the id is the one this upload added.
C18_Witness ==
    /\ lastReq.made
    /\ \E i \in DOMAIN lastReq.events :
           LET e == lastReq.events[i]
           IN  /\ e.hadVec
               /\ e.res.dup
               /\ Len(lastReq.events) = 1
               /\ Cardinality({ j \in DOMAIN idmap : idmap[j].id = e.res.id }) = 1

\* C19: the index holds at most one entry for an image id, however often the
\* same bytes are uploaded.
C19_AtMostOneEntry ==
    \A i, j \in DOMAIN idmap : idmap[i].id = idmap[j].id => i = j

C22_OldOrNew ==
    lastRun.made => (indexFile = lastRun.old \/ indexFile = lastRun.new)

\* C23: no two requests are inside the index step (the add in memory and
\* the writes of the artifact) at the same time, and once every request
\* that entered the step has left it, the artifact is the index with the
\* entry of each of them.
C23_IndexStepExclusive ==
    /\ \A t, u \in Threads : InIndexStep(t) /\ InIndexStep(u) => t = u
    /\ (\A t \in Threads : inflight[t].pc \in { "idle", "done" })
           /\ (\E t \in Threads : inflight[t].pc = "done")
       => indexFile = Some(WriteIndex(idmap))

\* C24: a view or a download of a record whose stored path is missing on
\* disk while the file is at the hash-derived path answers with that path
\* and leaves the record's path rewritten to it, and not-found is answered
\* only when the file is at neither path.
C24_ReadHealsPath ==
    lastRead.made /\ lastRead.op \in { "view", "download" }
                  /\ lastRead.rec.path \notin lastRead.present =>
        /\ ImgStorePath(lastRead.rec.sha) \in lastRead.present =>
               /\ lastRead.status = 200
               /\ lastRead.path = Some(ImgStorePath(lastRead.rec.sha))
               /\ lastRead.recAfter.path = ImgStorePath(lastRead.rec.sha)
        /\ lastRead.status = 404 =>
               ImgStorePath(lastRead.rec.sha) \notin lastRead.present

\* C25: the resolution of a thumbnail lets no exception out: it returns the
\* record's thumbnail where that file is on disk, returns nothing where the
\* original is at neither path, and otherwise returns a thumbnail whose
\* path the record then holds.
C25_ThumbNeverRaises ==
    lastRead.made /\ lastRead.op = "thumb" =>
        /\ ~lastRead.raised
        /\ (~IsNone(lastRead.rec.thumb) /\ Val(lastRead.rec.thumb) \in lastRead.present)
               => lastRead.path = lastRead.rec.thumb
        /\ ~IsNone(lastRead.path) => lastRead.recAfter.thumb = lastRead.path

\* C26: no upload and no backfill run changes or removes the embedding row
\* of an image that exists before and after it: the row, once there, stays
\* as it was written.
C26_EmbeddingKept ==
    [][\A e \in embeddings :
           (\E r \in images : r.id = e.id) /\ (\E r \in images' : r.id = e.id)
               => e \in embeddings']_vars

\* A duplicate upload found the embedding row of its record, and a backfill
\* tool has run over a table that holds rows.
C26_Witness ==
    /\ lastReq.made
    /\ \E i \in DOMAIN lastReq.events :
           /\ lastReq.events[i].hadVec
           /\ lastReq.events[i].res.dup
    /\ lastRun.made
    /\ embeddings # { }

\* C27: on every path of the handler the audit row of a file is written
\* once its embedding, OCR and auto-tag stages have returned.
C27_AuditLast ==
    lastReq.made =>
        \A i \in DOMAIN lastReq.events :
            LET done == lastReq.events[i].order
            IN  \A j \in DOMAIN done :
                    done[j] = "audit" =>
                        { "emb", "ocr", "tag" } \subseteq { done[k] : k \in 1..(j - 1) }

\* C28: every id among the items of a similar-images answer is the id of a
\* record of table image, whatever was uploaded and deleted before.
C28_OnlyRecordedIds ==
    (lastSim.made /\ lastSim.out.status = 200) =>
        \A i \in DOMAIN lastSim.out.items :
            \E r \in images : r.id = lastSim.out.items[i][1]

\* C29: every id that has an entry in the index has a row in table
\* embedding.
C29_EntryHasRecord ==
    \A i \in DOMAIN idmap : \E e \in embeddings : e.id = idmap[i].id

\* C30: once every upload that was started has finished, each uploaded
\* content has exactly one record and the file of that record is on disk.
C30_OneRecordWithFile ==
    (\A t \in Threads : inflight[t].pc \in { "idle", "done" }) =>
        \A t \in Threads :
            inflight[t].pc = "done" =>
                /\ Cardinality({ r \in images : r.sha = inflight[t].sha }) = 1
                /\ \A r \in images : r.sha = inflight[t].sha => r.path \in files
====
